---- MODULE Spec2Model ----
(***************************************************************************)
(* Model of src/game.js: a grid snake game driven by a repeating timer     *)
(* (setInterval), keyboard input and three buttons.  Every handler of the  *)
(* program is one atomic action (JavaScript runs handlers to completion).  *)
(***************************************************************************)
EXTENDS Integers, Sequences, FiniteSets, TLC

(* ---------------------------- configuration ---------------------------- *)

\* const TILE_COUNT = canvas.width / GRID_SIZE, with GRID_SIZE = 20 and the
\* 400 pixel wide canvas the initial snake (x = 8..10) is centred on
TILE_COUNT == 20

\* let gameSpeed = 120 ; gameSpeed = 120 in restartGame
INITIAL_SPEED == 120

\* variant: the test of line 171 written gameSpeed >= 70
SPEED_FLOOR_inclusive == 70 - 1

\* if (gameSpeed > 70)
SPEED_FLOOR == 70

\* gameSpeed -= 2
SPEED_STEP == 2

\* score += 10
REWARD == 10

(* ------------------------------- bounds -------------------------------- *)

\* number of timer fires that reach the movement code, over the whole run
MaxTicks == 10

\* number of Math.random() cell draws one generateFood call may consume
MaxDraws == 2

\* the cells Math.random() is taken to produce: the cell ahead of the initial
\* head, a cell under the initial snake, and a cell off the initial row
FoodDraws == { [x |-> 11, y |-> 10], [x |-> 10, y |-> 10], [x |-> 11, y |-> 9] }

\* values found under the key 'snakeHighScore' when the page loads
\* (NoItem: getItem returns null; otherwise the decimal string of the number)
NoItem == [none |-> TRUE]

Str(n) == [str |-> n]

InitialStorage == { NoItem, Str(10) }

(* ------------------------------ variables ------------------------------ *)

VARIABLES
    snake,            \* let snake: sequence of cells, head first
    food,             \* let food
    dx, dy,           \* let dx, dy
    score,            \* let score
    highScore,        \* let highScore (a number, or the string read from storage)
    gameLoop,         \* let gameLoop: the handle last returned by setInterval
    gameStarted,      \* let gameStarted
    gamePaused,       \* let gamePaused
    gameSpeed,        \* let gameSpeed
    gameOverDisplay,  \* gameOverElement.style.display
    storage,          \* localStorage['snakeHighScore']
    timers,           \* the intervals currently armed: records [id, delay]
    ticks,            \* history: timer fires that ran the movement code
    maxScore          \* history: largest score seen, starting from the loaded one

vars == << snake, food, dx, dy, score, highScore, gameLoop, gameStarted,
           gamePaused, gameSpeed, gameOverDisplay, storage, timers,
           ticks, maxScore >>

\* the variables of the program itself
gameVars == << snake, food, dx, dy, score, highScore, gameLoop, gameStarted,
               gamePaused, gameSpeed, gameOverDisplay, storage, timers >>

(* ------------------------------- helpers ------------------------------- *)

Cell(cx, cy) == [x |-> cx, y |-> cy]

\* the array literal of initGame
InitialSnake == << Cell(10, 10), Cell(9, 10), Cell(8, 10) >>

\* variant: the loop over the segments leaves out the last one (the tail)
OnSnake_skipTail(c, s) == \E i \in 1..(Len(s) - 1) : s[i].x = c.x /\ s[i].y = c.y

\* for (let segment of snake) if (segment.x === c.x && segment.y === c.y)
OnSnake(c, s) == \E i \in 1..Len(s) : s[i].x = c.x /\ s[i].y = c.y

\* variant: the upper wall tests written with > instead of >=
OutOfBounds_offByOne(c) == c.x < 0 \/ c.x > TILE_COUNT \/ c.y < 0 \/ c.y > TILE_COUNT

\* head.x < 0 || head.x >= TILE_COUNT || head.y < 0 || head.y >= TILE_COUNT
OutOfBounds(c) == c.x < 0 \/ c.x >= TILE_COUNT \/ c.y < 0 \/ c.y >= TILE_COUNT

\* JavaScript ToNumber on a high-score value: a number, or a decimal string
ToNumber(v) == IF "str" \in DOMAIN v THEN v.str ELSE v.num

Num(n) == [num |-> n]

\* localStorage.getItem('snakeHighScore') || 0
LoadHighScore(item) == IF item = NoItem THEN Num(0) ELSE item

\* localStorage.setItem stores the string form of its argument
StoreItem(v) == Str(ToNumber(v))

\* generateFood with the cells its successive random draws produce: the first
\* draw that is on no snake segment is kept, an occupied one recurses.
\* NoFood: every given draw was rejected (the recursion is still running).
NoFood == [x |-> -1, y |-> -1]

\* variant: the first draw is kept without looking at the snake
generateFood_noRetry(s, draws) == IF draws = << >> THEN NoFood ELSE Head(draws)

RECURSIVE generateFood(_, _)
generateFood(s, draws) ==
    IF draws = << >> THEN NoFood
    ELSE IF OnSnake(Head(draws), s) THEN generateFood(s, Tail(draws))
         ELSE Head(draws)

DrawSeqs == UNION { [1..n -> FoodDraws] : n \in 1..MaxDraws }

\* generateFood() goes on drawing until a draw is off the snake.  When all
\* the draws considered are on it, a later draw stands for the rest of the
\* recursion: the first free cell of the board in reading order from cell
\* number k.  (Not used on a full board, where the recursion has no end.)
RECURSIVE LaterDraw(_, _)
LaterDraw(s, k) ==
    IF ~OnSnake(Cell(k % TILE_COUNT, k \div TILE_COUNT), s)
    THEN Cell(k % TILE_COUNT, k \div TILE_COUNT)
    ELSE LaterDraw(s, k + 1)

\* the cells a generateFood() call on snake s can return, over all the draw
\* sequences considered
FoodResults(s) ==
    LET accepted == { generateFood(s, draws) : draws \in DrawSeqs } \ { NoFood }
    IN  IF accepted # {} THEN accepted ELSE { LaterDraw(s, 0) }

\* The handle setInterval returns: a positive number no armed interval has.
\* Handles are only ever compared for identity, and each one the program gets
\* is stored in gameLoop over the previous one, so the number of a cleared
\* interval can stand for the next one.
FreshId(ts) ==
    CHOOSE i \in 1..(Cardinality(ts) + 1) :
        /\ \A t \in ts : t.id # i
        /\ \A j \in 1..(i - 1) : \E t \in ts : t.id = j

\* variant: the interval is left armed
clearInterval_forgotten(ts, h) == ts

\* clearInterval(h)
clearInterval(ts, h) == { t \in ts : t.id # h }

\* setInterval(gameUpdate, delay)
setInterval(ts, id, delay) == ts \cup { [id |-> id, delay |-> delay] }

Max(a, b) == IF a >= b THEN a ELSE b

\* variant: the tail is dropped on every move, eating or not
unshift_noGrowth(head, s) == << head >> \o SubSeq(s, 1, Len(s) - 1)

\* snake.unshift(head)
unshift(head, s) == << head >> \o s

\* variant: the tail is never removed
pop_forgotten(s) == s

\* snake.pop()
pop(s) == SubSeq(s, 1, Len(s) - 1)

\* variant: the high score is overwritten by every new score
newHighScore_always(sc, hs) == Num(sc)

\* if (score > highScore) highScore = score      (sc: the score after += 10)
newHighScore(sc, hs) == IF sc > ToNumber(hs) THEN Num(sc) ELSE hs

\* variant: the setItem call of line 165 is missing
newStorage_never(sc, hs, item) == item

\* if (score > highScore) localStorage.setItem('snakeHighScore', highScore)
newStorage(sc, hs, item) == IF sc > ToNumber(hs) THEN StoreItem(Num(sc)) ELSE item

\* the handle value before the first setInterval (let gameLoop = null)
NullHandle == 0

(* -------------------------------- Init --------------------------------- *)

\* Module load: lines 16-25 and the trailing initGame() of line 265.
Init ==
    \E item \in InitialStorage, newFood \in FoodResults(InitialSnake) :
        /\ storage = item
        /\ highScore = LoadHighScore(item)
        /\ snake = InitialSnake
        /\ dx = 1
        /\ dy = 0
        /\ score = 0
        /\ gameOverDisplay = "none"
        /\ food = newFood
        /\ gameLoop = NullHandle
        /\ gameStarted = FALSE
        /\ gamePaused = FALSE
        /\ gameSpeed = INITIAL_SPEED
        /\ timers = {}
        /\ ticks = 0
        /\ maxScore = ToNumber(LoadHighScore(item))

(* ------------------------------- actions ------------------------------- *)

\* function initGame()          (newFood: what its generateFood() call returns)
initGame(newFood) ==
    /\ snake' = InitialSnake
    /\ dx' = 1
    /\ dy' = 0
    /\ score' = 0
    /\ gameOverDisplay' = "none"
    /\ food' = newFood

\* function startGame(): the click handler of startBtn
startGame ==
    /\ IF ~gameStarted
       THEN \E newFood \in FoodResults(InitialSnake) :
               /\ gameStarted' = TRUE
               /\ gamePaused' = FALSE
               /\ initGame(newFood)
               /\ LET id == FreshId(timers) IN
                      /\ gameLoop' = id
                      /\ timers' = setInterval(timers, id, gameSpeed)
               /\ UNCHANGED << highScore, gameSpeed, storage, ticks, maxScore >>
       ELSE UNCHANGED << gameVars, ticks, maxScore >>

\* function togglePause()
pauseBody ==
    IF ~gameStarted
    THEN UNCHANGED gamePaused
    ELSE gamePaused' = ~gamePaused

\* the click handler of pauseBtn
togglePause ==
    /\ pauseBody
    /\ UNCHANGED << snake, food, dx, dy, score, highScore, gameLoop, gameStarted,
                    gameSpeed, gameOverDisplay, storage, timers, ticks, maxScore >>

\* variant: gameSpeed is not put back to 120
restartGame_keepSpeed ==
    /\ \E newFood \in FoodResults(InitialSnake) :
          /\ timers' = clearInterval(timers, gameLoop)
          /\ gameStarted' = FALSE
          /\ gamePaused' = FALSE
          /\ initGame(newFood)
    /\ UNCHANGED << highScore, gameLoop, gameSpeed, storage, ticks, maxScore >>

\* variant: gamePaused is not cleared
restartGame_keepPaused ==
    /\ \E newFood \in FoodResults(InitialSnake) :
          /\ timers' = clearInterval(timers, gameLoop)
          /\ gameStarted' = FALSE
          /\ gameSpeed' = INITIAL_SPEED
          /\ initGame(newFood)
    /\ UNCHANGED << highScore, gameLoop, gamePaused, storage, ticks, maxScore >>

\* function restartGame(): the click handler of restartBtn
restartGame ==
    /\ \E newFood \in FoodResults(InitialSnake) :
          /\ timers' = clearInterval(timers, gameLoop)
          /\ gameStarted' = FALSE
          /\ gamePaused' = FALSE
          /\ gameSpeed' = INITIAL_SPEED
          /\ initGame(newFood)
    /\ UNCHANGED << highScore, gameLoop, storage, ticks, maxScore >>

\* variant: the clearInterval call of line 224 is missing
endGame_noClear ==
    /\ gameStarted' = FALSE
    /\ gameOverDisplay' = "block"
    /\ UNCHANGED << snake, food, dx, dy, score, highScore, gameLoop, gamePaused,
                    gameSpeed, storage, timers >>

\* function endGame()
endGame ==
    /\ timers' = clearInterval(timers, gameLoop)
    /\ gameStarted' = FALSE
    /\ gameOverDisplay' = "block"
    /\ UNCHANGED << snake, food, dx, dy, score, highScore, gameLoop, gamePaused,
                    gameSpeed, storage >>

\* const head = { x: snake[0].x + dx, y: snake[0].y + dy }
NewHead == Cell(snake[1].x + dx, snake[1].y + dy)

\* update(), lines 157-175: the new head is on the food
\* (newFood: what the generateFood() call of line 168 returns)
eatFood(head, newFood) ==
    /\ snake' = unshift(head, snake)
    /\ score' = score + REWARD
    /\ highScore' = newHighScore(score + REWARD, highScore)
    /\ storage' = newStorage(score + REWARD, highScore, storage)
    /\ food' = newFood
    /\ IF gameSpeed > SPEED_FLOOR
       THEN LET cleared == clearInterval(timers, gameLoop)
                id == FreshId(cleared)
            IN  /\ gameSpeed' = gameSpeed - SPEED_STEP
                /\ gameLoop' = id
                /\ timers' = setInterval(cleared, id, gameSpeed - SPEED_STEP)
       ELSE UNCHANGED << gameSpeed, gameLoop, timers >>
    /\ UNCHANGED << dx, dy, gameStarted, gamePaused, gameOverDisplay >>

\* every cell of the board is a segment of s
BoardFull(s) ==
    \A cx \in 0..(TILE_COUNT - 1), cy \in 0..(TILE_COUNT - 1) :
        OnSnake(Cell(cx, cy), s)

\* update(), lines 154-168, when the snake with its new head covers the
\* board: every draw of generateFood() is rejected, the recursion of line 53
\* exhausts the call stack, and the RangeError leaves update() before line
\* 170.  snake, score, highScore and storage were already assigned; food
\* holds a rejected draw.
eatFoodOverflow(head) ==
    /\ snake' = unshift(head, snake)
    /\ score' = score + REWARD
    /\ highScore' = newHighScore(score + REWARD, highScore)
    /\ storage' = newStorage(score + REWARD, highScore, storage)
    /\ \E c \in FoodDraws : food' = c
    /\ UNCHANGED << dx, dy, gameLoop, gameStarted, gamePaused, gameSpeed,
                    gameOverDisplay, timers >>

\* update(), lines 154 and 176-179: the new head is on a free cell
moveOn(head) ==
    /\ snake' = pop(unshift(head, snake))
    /\ UNCHANGED << food, dx, dy, score, highScore, gameLoop, gameStarted,
                    gamePaused, gameSpeed, gameOverDisplay, storage, timers >>

\* variant: update() without its first line, if (gamePaused) return
update_ignorePause ==
    IF OutOfBounds(NewHead)
    THEN endGame
    ELSE IF OnSnake(NewHead, snake)
    THEN endGame
    ELSE IF NewHead.x = food.x /\ NewHead.y = food.y
    THEN IF BoardFull(unshift(NewHead, snake))
         THEN eatFoodOverflow(NewHead)
         ELSE \E newFood \in FoodResults(unshift(NewHead, snake)) :
                  eatFood(NewHead, newFood)
    ELSE moveOn(NewHead)

\* function update()
update ==
    IF gamePaused
    THEN UNCHANGED gameVars
    ELSE IF OutOfBounds(NewHead)
    THEN endGame
    ELSE IF OnSnake(NewHead, snake)
    THEN endGame
    ELSE IF NewHead.x = food.x /\ NewHead.y = food.y
    THEN IF BoardFull(unshift(NewHead, snake))
         THEN eatFoodOverflow(NewHead)
         ELSE \E newFood \in FoodResults(unshift(NewHead, snake)) :
                  eatFood(NewHead, newFood)
    ELSE moveOn(NewHead)

\* function gameUpdate(): the callback of an armed interval fires
timerFires ==
    /\ timers # {}
    /\ update
    /\ ticks' = IF gamePaused THEN ticks ELSE ticks + 1
    /\ maxScore' = Max(maxScore, score')

\* timerFires, taken only while the budget of moving ticks lasts
gameUpdate ==
    /\ gamePaused \/ ticks < MaxTicks
    /\ timerFires

\* the keys the keydown handler may receive ("Enter": a key it has no case for)
Keys == { "ArrowUp", "ArrowDown", "ArrowLeft", "ArrowRight", " ", "Enter" }

ArrowKeys == { "ArrowUp", "ArrowDown", "ArrowLeft", "ArrowRight" }

\* variant: up and down test dx, left and right test dy
canTurn_swapped(k) ==
    IF k \in { "ArrowUp", "ArrowDown" } THEN dx = 0 ELSE dy = 0

\* the condition each arrow case tests: if (dy === 0) for up and down,
\* if (dx === 0) for left and right
canTurn(k) ==
    IF k \in { "ArrowUp", "ArrowDown" } THEN dy = 0 ELSE dx = 0

\* the << dx, dy >> each arrow case assigns
keyDelta(k) ==
    CASE k = "ArrowUp" -> << 0, -1 >>
      [] k = "ArrowDown" -> << 0, 1 >>
      [] k = "ArrowLeft" -> << -1, 0 >>
      [] k = "ArrowRight" -> << 1, 0 >>

\* the switch of the keydown handler, lines 235-256
keySwitch(k) ==
    CASE k \in ArrowKeys ->
           /\ IF canTurn(k)
              THEN dx' = keyDelta(k)[1] /\ dy' = keyDelta(k)[2]
              ELSE UNCHANGED << dx, dy >>
           /\ UNCHANGED gamePaused
      [] k = " " ->
           /\ pauseBody
           /\ UNCHANGED << dx, dy >>
      [] OTHER -> UNCHANGED << dx, dy, gamePaused >>

\* variant: the handler without its first line, if (!gameStarted) return
keydown_unguarded(k) ==
    /\ keySwitch(k)
    /\ UNCHANGED << snake, food, score, highScore, gameLoop, gameStarted,
                    gameSpeed, gameOverDisplay, storage, timers, ticks, maxScore >>

\* document.addEventListener('keydown', ...)
keydown(k) ==
    /\ IF ~gameStarted
       THEN UNCHANGED << dx, dy, gamePaused >>
       ELSE keySwitch(k)
    /\ UNCHANGED << snake, food, score, highScore, gameLoop, gameStarted,
                    gameSpeed, gameOverDisplay, storage, timers, ticks, maxScore >>

Next ==
    \/ startGame
    \/ togglePause
    \/ restartGame
    \/ gameUpdate
    \/ \E k \in Keys : keydown(k)

Spec == Init /\ [][Next]_vars

(* ----------------------------- a late game ----------------------------- *)

\* gameSpeed survives a game over: endGame, startGame and initGame do not
\* assign it.  A page loaded with empty storage on which n games were played,
\* each eating one food and then ending by a collision, each begun by
\* start(), holds gameSpeed = 120 - 2n, highScore = 10 and storage "10".
\* The numbers of such games considered: the last two before the floor.
LateGames == { 24, 25 }

\* The state right after the start() that follows those games (startGame,
\* lines 190-199).  ticks counts from this state on.
InitLate ==
    \E n \in LateGames, newFood \in FoodResults(InitialSnake) :
        /\ storage = Str(REWARD)
        /\ highScore = Num(REWARD)
        /\ snake = InitialSnake
        /\ dx = 1
        /\ dy = 0
        /\ score = 0
        /\ gameOverDisplay = "none"
        /\ food = newFood
        /\ gameLoop = 1
        /\ gameStarted = TRUE
        /\ gamePaused = FALSE
        /\ gameSpeed = INITIAL_SPEED - SPEED_STEP * n
        /\ timers = { [id |-> 1, delay |-> INITIAL_SPEED - SPEED_STEP * n] }
        /\ ticks = 0
        /\ maxScore = REWARD

SpecLate == InitLate /\ [][Next]_vars

(* ---------------------------- a full board ----------------------------- *)

\* A closed tour of the board through every cell: row 0 from (0,0) to the
\* right, then rows 1 .. TILE_COUNT-1 back and forth inside the columns
\* 1 .. TILE_COUNT-1 (odd rows leftwards, even rows rightwards), then column
\* 0 upwards from the bottom.  The initial snake lies on it, head foremost.
TourCell(i) ==
    IF i < TILE_COUNT THEN Cell(i, 0)
    ELSE IF i < TILE_COUNT + (TILE_COUNT - 1) * (TILE_COUNT - 1)
    THEN LET r == 1 + (i - TILE_COUNT) \div (TILE_COUNT - 1)
             j == (i - TILE_COUNT) % (TILE_COUNT - 1)
         IN  Cell(IF r % 2 = 1 THEN TILE_COUNT - 1 - j ELSE 1 + j, r)
    ELSE Cell(0, TILE_COUNT - 1
                 - (i - TILE_COUNT - (TILE_COUNT - 1) * (TILE_COUNT - 1)))

TourLen == TILE_COUNT * TILE_COUNT

\* the place of the initial head on the tour
TourStart == CHOOSE i \in 0..(TourLen - 1) : TourCell(i) = InitialSnake[1]

\* A game begun by start() on a page loaded with empty storage, steered along
\* the tour, in which every food so far was placed on the cell ahead of the
\* head: each tick eats, the tail (8,10) never moves, and after TourLen - 4
\* ticks the snake covers all of the tour but the one cell between head and
\* tail, where the food is.  gameSpeed reached its floor after 25 foods.
\* ticks counts from this state on.
InitFull ==
    LET eaten == TourLen - 4
        h == (TourStart + eaten) % TourLen
    IN  /\ snake = [n \in 1..(TourLen - 1) |->
                       TourCell((h + TourLen - (n - 1)) % TourLen)]
        /\ food = TourCell((h + 1) % TourLen)
        /\ dx = TourCell((h + 1) % TourLen).x - TourCell(h).x
        /\ dy = TourCell((h + 1) % TourLen).y - TourCell(h).y
        /\ score = REWARD * eaten
        /\ highScore = Num(REWARD * eaten)
        /\ storage = Str(REWARD * eaten)
        /\ gameOverDisplay = "none"
        /\ gameLoop = 1
        /\ gameStarted = TRUE
        /\ gamePaused = FALSE
        /\ gameSpeed = SPEED_FLOOR
        /\ timers = { [id |-> 1, delay |-> SPEED_FLOOR] }
        /\ ticks = 0
        /\ maxScore = REWARD * eaten

SpecFull == InitFull /\ [][Next]_vars

(* ------------------------- a game left alone -------------------------- *)

Directions == { << 1, 0 >>, << -1, 0 >>, << 0, 1 >>, << 0, -1 >> }

\* the cells next to c on the board
Neighbours(c) ==
    { n \in { Cell(c.x + d[1], c.y + d[2]) : d \in Directions } :
        ~OutOfBounds(n) }

\* every chain of n distinct cells of the board in which each cell is next
\* to the one before it
RECURSIVE SnakeChains(_)
SnakeChains(n) ==
    IF n = 1
    THEN { << Cell(cx, cy) >> : cx \in 0..(TILE_COUNT - 1),
                                cy \in 0..(TILE_COUNT - 1) }
    ELSE UNION { { Append(s, c) :
                     c \in { n2 \in Neighbours(s[n - 1]) : ~OnSnake(n2, s) } } :
                 s \in SnakeChains(n - 1) }

\* the shapes a moving snake of n cells can have: the head was steered along
\* the chain and the body followed, so before the last move the tail end lay
\* on a cell next to the tail that the snake has left.  That cell is not the
\* head's: update() tests the new head against every segment, the tail end
\* included, before pop() (lines 146-151, 178).  This leaves out the coils
\* whose tail is shut in a corner of the board by the head.
SnakeShapes(n) ==
    { s \in SnakeChains(n) : \E c \in Neighbours(s[n]) : ~OnSnake(c, s) }

\* the most foods eaten before the game is left alone
MaxEaten == 1

\* the cells the generateFood() call of an eating tick can return, over the
\* snakes of n cells it can meet: any draw, or the later draw of a snake
\* lying on all the draws
FoodAfterEat(n) ==
    FoodDraws \cup
    { LaterDraw(s, 0) :
        s \in { t \in SnakeChains(n) : \A c \in FoodDraws : OnSnake(c, t) } }

\* A running, unpaused game of a page loaded with empty storage, at the
\* moment the player stops giving input: `eaten` foods were eaten (each one
\* lengthened the snake, scored REWARD, stored the new high score and
\* re-armed the interval SPEED_STEP ms faster), the snake was steered into
\* any shape anywhere on the board, and the last keys left any of the four
\* directions pending (the reverse one after two quick perpendicular keys).
\* With nothing eaten the food is still the cell initGame()'s generateFood()
\* accepted against the initial snake; after an eat it is what the
\* generateFood() call of that tick returned.  The food is never under the
\* snake: the head would have eaten it.  ticks counts from this state on.
InitAuto ==
    \E eaten \in 0..MaxEaten :
      \E s \in SnakeShapes(Len(InitialSnake) + eaten), d \in Directions,
         f \in (IF eaten = 0 THEN FoodResults(InitialSnake)
                ELSE FoodAfterEat(Len(InitialSnake) + eaten)) :
        /\ ~OnSnake(f, s)
        /\ snake = s
        /\ food = f
        /\ dx = d[1]
        /\ dy = d[2]
        /\ score = REWARD * eaten
        /\ highScore = Num(REWARD * eaten)
        /\ storage = (IF eaten = 0 THEN NoItem ELSE Str(REWARD * eaten))
        /\ gameOverDisplay = "none"
        /\ gameLoop = 1
        /\ gameStarted = TRUE
        /\ gamePaused = FALSE
        /\ gameSpeed = INITIAL_SPEED - SPEED_STEP * eaten
        /\ timers = { [id |-> 1, delay |-> INITIAL_SPEED - SPEED_STEP * eaten] }
        /\ ticks = 0
        /\ maxScore = REWARD * eaten

\* No input arrives; the armed interval keeps firing (setInterval repeats
\* until it is cleared).
SpecAuto == InitAuto /\ [][timerFires]_vars /\ WF_vars(timerFires)

(* ------------------------------ the phase ------------------------------ *)

\* the phase of the state machine, read off the two flags and the game-over banner
Phase ==
    IF gamePaused THEN "paused"
    ELSE IF gameStarted THEN "running"
    ELSE IF gameOverDisplay = "block" THEN "ended"
    ELSE "idle"

TypeOK ==
    /\ Len(snake) >= 3
    /\ dx \in {-1, 0, 1} /\ dy \in {-1, 0, 1}
    /\ gameStarted \in BOOLEAN /\ gamePaused \in BOOLEAN
    /\ gameSpeed \in SPEED_FLOOR..INITIAL_SPEED
    /\ ticks \in 0..MaxTicks
    /\ dx * dx + dy * dy = 1

(* ------------------------------- claims -------------------------------- *)

InBounds(c) == c.x >= 0 /\ c.x < TILE_COUNT /\ c.y >= 0 /\ c.y < TILE_COUNT

\* the step is a timer fire that ran the movement code of update()
MovingTick == ticks' = ticks + 1

\* C1: in every reachable state every snake cell has both coordinates in
\* [0, TILE_COUNT) and no two snake cells are equal.
C1_SnakeInBoundsDistinct ==
    /\ \A i \in 1..Len(snake) : InBounds(snake[i])
    /\ \A i, j \in 1..Len(snake) : i # j => snake[i] # snake[j]

\* C1 witness: the head reached the right wall and the tick that would have
\* left the board ended the game instead.
C1_Witness ==
    /\ Phase = "ended"
    /\ snake[1].x = TILE_COUNT - 1
    /\ dx = 1

\* C2: the food cell is not a snake cell in any reachable state (every
\* generateFood result, at initGame and after eating, is off the snake).
C2_FoodOffSnake == ~OnSnake(food, snake)

\* C2 witness: food was eaten at (11,10) and the new food was placed while
\* two of the three drawable cells were under the snake.
C2_Witness ==
    /\ score = REWARD
    /\ snake[1] = Cell(11, 10)
    /\ snake[2] = Cell(10, 10)
    /\ food = Cell(11, 9)

\* C3: a tick of a running game does exactly one of: (a) new head in bounds,
\* off the snake and on the food: the snake grows by the new head and score
\* rises by 10; (b) in bounds, off the snake, off the food: the snake moves one
\* cell, same length, same score; (c) out of bounds or on a snake cell (the
\* tail included): the game is ended, snake and score unchanged.
C3_TickCases ==
    [][ (Phase = "running" /\ MovingTick) =>
          LET h == Cell(snake[1].x + dx, snake[1].y + dy)
              hit == ~InBounds(h) \/ (\E i \in 1..Len(snake) : snake[i] = h)
          IN  IF hit
              THEN /\ Phase' = "ended"
                   /\ snake' = snake
                   /\ score' = score
              ELSE IF h = food
              THEN /\ Phase' = "running"
                   /\ snake' = << h >> \o snake
                   /\ score' = score + 10
              ELSE /\ Phase' = "running"
                   /\ Len(snake') = Len(snake)
                   /\ snake' = << h >> \o SubSeq(snake, 1, Len(snake) - 1)
                   /\ score' = score ]_vars

\* C3 witness: a game ended by a tick whose new head was the tail cell: a
\* cell of the board that the snake would have vacated in the same tick.
C3_Witness ==
    /\ Phase = "ended"
    /\ InBounds(NewHead)
    /\ NewHead = snake[Len(snake)]

\* C4: highScore never decreases, and in every reachable state it equals the
\* largest score reached so far, the value loaded from storage counting as one.
C4_HighScoreMonotoneMax ==
    /\ [](ToNumber(highScore) = maxScore)
    /\ [][ToNumber(highScore') >= ToNumber(highScore)]_vars

\* C4 witness: a page that loaded "10" from storage, scored 20, and is now in
\* a later game whose score is below the high score.
C4_Witness ==
    /\ highScore = Num(20)
    /\ score = 0
    /\ gameStarted

\* the arrow key asks for the direction opposite to, equal to, or
\* perpendicular to the current one
Opposite(k) == keyDelta(k) = << -dx, -dy >>

Same(k) == keyDelta(k) = << dx, dy >>

Perpendicular(k) == keyDelta(k)[1] * dx + keyDelta(k)[2] * dy = 0

\* C5: an arrow key opposite to the current direction changes no state
\* variable, nor does one equal to it; a key press changes (dx, dy) only when
\* the key is perpendicular, and then to that key's direction.
C5_ReverseRejected ==
    [][ \A k \in ArrowKeys :
          keydown(k) =>
            /\ (Opposite(k) \/ Same(k)) => UNCHANGED gameVars
            /\ << dx', dy' >> # << dx, dy >> =>
                  Perpendicular(k) /\ << dx', dy' >> = keyDelta(k) ]_vars

\* C5 witness: a started game heading up, which only an accepted ArrowUp
\* produces and in which ArrowDown is the opposite key.
C5_Witness ==
    /\ gameStarted
    /\ dx = 0 /\ dy = -1
    /\ Opposite("ArrowDown")

\* the state the C6 scenario starts from
C6_Scenario ==
    /\ Phase = "running"
    /\ snake = InitialSnake
    /\ dx = 1 /\ dy = 0
    /\ food = Cell(11, 10)

\* C6 as stated: from snake [(10,10),(9,10),(8,10)], direction (1,0), food
\* (11,10), one tick makes the snake [(11,10),(10,10),(9,10)], adds 10 to the
\* score and places a new food off the snake.
C6_AsStated ==
    [][ (C6_Scenario /\ MovingTick) =>
          /\ snake' = << Cell(11, 10), Cell(10, 10), Cell(9, 10) >>
          /\ score' = score + 10
          /\ \A i \in 1..Len(snake') : snake'[i] # food' ]_vars

\* C6 amended: from that state one tick makes the snake the four cells
\* [(11,10),(10,10),(9,10),(8,10)] (the tail is kept), adds 10 to the score
\* and places a new food off the snake.
C6_EatScenario ==
    [][ (C6_Scenario /\ MovingTick) =>
          /\ snake' = << Cell(11, 10), Cell(10, 10), Cell(9, 10), Cell(8, 10) >>
          /\ score' = score + 10
          /\ \A i \in 1..Len(snake') : snake'[i] # food' ]_vars

\* C6 witness: the state right after the scenario's tick.
C6_Witness ==
    /\ ticks = 1
    /\ score = 10
    /\ snake = << Cell(11, 10), Cell(10, 10), Cell(9, 10), Cell(8, 10) >>
    /\ food = Cell(11, 9)

\* what restart() and start() both establish: the initial snake heading
\* right and a score of 0
FreshGame ==
    /\ snake = InitialSnake
    /\ dx = 1 /\ dy = 0
    /\ score = 0

\* C7 as stated: restart() after ended gives phase running (started, not
\* paused, timer armed), the initial snake heading right, score 0, speed 120.
C7_AsStated ==
    [][ (Phase = "ended" /\ restartGame) =>
          /\ Phase' = "running"
          /\ timers' # {}
          /\ FreshGame'
          /\ gameSpeed' = 120 ]_vars

\* C7 amended: restart() after ended gives phase idle (not started, not
\* paused, no timer armed), the initial snake heading right, score 0, speed
\* 120; the game runs again only after a following start().
C7_RestartToIdle ==
    [][ (Phase = "ended" /\ restartGame) =>
          /\ Phase' = "idle"
          /\ ~gameStarted' /\ ~gamePaused'
          /\ timers' = {}
          /\ FreshGame'
          /\ gameSpeed' = 120 ]_vars

\* C7 witness: an idle page whose process has already scored and run ticks:
\* only restart() leads there, and it had a speed below 120 to reset.
C7_Witness ==
    /\ Phase = "idle"
    /\ highScore = Num(10)
    /\ ticks > 1
    /\ gameSpeed = 120
    /\ timers = {}

\* C8: every game begun by start() has its tick timer armed at 120 ms, score
\* 0 and the initial snake, whatever happened in earlier games.
C8_StartAtInitialSpeed ==
    [][ (~gameStarted /\ startGame) =>
          /\ timers' = { [id |-> gameLoop', delay |-> 120] }
          /\ FreshGame' ]_vars

\* C9: once a collision has ended the game, every step that is not restart()
\* (start(), togglePause(), any key, any timer event) keeps the phase ended
\* and snake, score and speed unchanged.
C9_AsStated ==
    [][ (Phase = "ended" /\ ~restartGame) =>
          /\ Phase' = "ended"
          /\ UNCHANGED << snake, score, gameSpeed >> ]_vars

\* C10: at most one interval is armed in every reachable state, it is the
\* one gameLoop names, and one is armed exactly when the game is started
\* (so none is left by restart or end).
C10_SingleTimer ==
    /\ Cardinality(timers) <= 1
    /\ \A t \in timers : t.id = gameLoop
    /\ (timers # {}) <=> gameStarted

\* C10 witness: a started game after the speed-up of line 171-175 replaced
\* the interval by one at 118 ms.
C10_Witness ==
    /\ gameStarted
    /\ gameSpeed = 118
    /\ timers = { [id |-> gameLoop, delay |-> 118] }

\* C11: invalid operations are no-ops.  While the game is not started (idle
\* or ended) togglePause() and every key leave all program state unchanged,
\* no interval is armed and so no tick changes anything; while the game is
\* started (running or paused) start() leaves all program state unchanged.
C11_InvalidOpsNoOps ==
    /\ [](~gameStarted => timers = {})
    /\ [][ /\ (~gameStarted /\ togglePause) => UNCHANGED gameVars
           /\ \A k \in Keys : (~gameStarted /\ keydown(k)) => UNCHANGED gameVars
           /\ (~gameStarted /\ gameUpdate) => UNCHANGED gameVars
           /\ (gameStarted /\ startGame) => UNCHANGED gameVars ]_vars

\* C11 witness: an ended game whose snake had been turned upwards by a key:
\* the same key and the pause button now find gameStarted false.
C11_Witness ==
    /\ ~gameStarted
    /\ gameOverDisplay = "block"
    /\ dx = 0 /\ dy = -1
    /\ ~gamePaused

\* C12: an arrow key received while the game is paused leaves (dx, dy)
\* unchanged, so the first tick after resuming moves in the direction held
\* when pause was pressed.
C12_PausedKeysIgnored ==
    [][ \A k \in ArrowKeys :
          (gamePaused /\ keydown(k)) => UNCHANGED << dx, dy >> ]_vars

\* C13: in a started game togglePause() flips gamePaused and changes nothing
\* else (running -> paused -> running); a timer fire while paused changes no
\* program state, so the second togglePause() resumes from the state held
\* when the pause began.
C13_PauseFreezes ==
    [][ /\ (gameStarted /\ togglePause) =>
              /\ gamePaused' = ~gamePaused
              /\ Phase' = (IF Phase = "running" THEN "paused" ELSE "running")
              /\ UNCHANGED << snake, food, dx, dy, score, highScore, gameLoop,
                              gameStarted, gameSpeed, gameOverDisplay, storage,
                              timers >>
        /\ (gamePaused /\ gameUpdate) => UNCHANGED gameVars ]_vars

\* C13 witness: a paused game that has moved and eaten, with its interval
\* still armed and firing.
C13_Witness ==
    /\ Phase = "paused"
    /\ score = 10
    /\ ticks > 1
    /\ timers # {}

\* the step is a tick that ate the food
EatingTick == MovingTick /\ score' = score + 10

\* C14: 70 <= gameSpeed <= 120 in every reachable state; a tick that eats
\* lowers gameSpeed by exactly 2 when it is above 70 and leaves it unchanged
\* at 70; only an eating tick or restart() changes gameSpeed.
C14_SpeedRange ==
    /\ [](gameSpeed >= 70 /\ gameSpeed <= 120)
    /\ [][ /\ EatingTick =>
                gameSpeed' = (IF gameSpeed > 70 THEN gameSpeed - 2 ELSE gameSpeed)
           /\ gameSpeed' # gameSpeed => (EatingTick \/ restartGame) ]_vars

\* C14 witness: a late game that has eaten twice and stands at the floor: at
\* least one of the two foods was eaten with gameSpeed already 70.
C14_Witness ==
    /\ gameSpeed = 70
    /\ score = 20
    /\ timers = { [id |-> gameLoop, delay |-> 70] }

\* C15: whenever generateFood is invoked after eating, the snake (new head
\* included) occupies strictly fewer than TILE_COUNT * TILE_COUNT cells, so a
\* free cell exists for the food.  (initGame invokes it with 3 cells.)
C15_FoodCanBePlaced ==
    [][ EatingTick => Len(snake') < TILE_COUNT * TILE_COUNT ]_vars

\* the number the stored item stands for, a missing item counting as 0
StoredValue == IF storage = NoItem THEN 0 ELSE storage.str

\* C16: in every reachable state the stored value (missing = 0) equals
\* highScore; storage is written exactly by the ticks that reach a new high
\* score, with that score, and by no other handler.
C16_StorageTracksHighScore ==
    /\ [](StoredValue = ToNumber(highScore))
    /\ [][ /\ storage' # storage =>
                (EatingTick /\ score' > ToNumber(highScore))
           /\ (EatingTick /\ score' > ToNumber(highScore)) =>
                storage' = Str(score') ]_vars

\* C16 witness: a game that has just taken the high score to 20, stored as
\* the string "20".
C16_Witness ==
    /\ storage = Str(20)
    /\ score = 20
    /\ highScore = Num(20)

\* C17: the direction a tick applies is never the exact reverse of the one
\* the previous tick of the game applied (head minus second cell), whatever
\* keys arrived in between: no tick aims the head at the second cell.
C17_NoReversal ==
    [][ (MovingTick /\ snake # InitialSnake) =>
          << dx, dy >> # << snake[2].x - snake[1].x, snake[2].y - snake[1].y >> ]_vars

\* C18: in every reachable state score is a non-negative multiple of 10 and
\* equals 10 * (snake length - 3).
C18_ScoreIsLength ==
    /\ score >= 0
    /\ score % 10 = 0
    /\ score = 10 * (Len(snake) - 3)

\* C18 witness: a snake of five cells with score 20.
C18_Witness ==
    /\ Len(snake) = 5
    /\ score = 20

\* C19: gamePaused implies gameStarted in every reachable state: a game that
\* is idle or ended is never paused.
C19_PausedImpliesStarted == gamePaused => gameStarted

\* C19 witness: an idle page reached by restart() (ticks have run) with the
\* pause flag down.
C19_Witness ==
    /\ Phase = "idle"
    /\ ticks > 0
    /\ ~gamePaused
    /\ dx = 1

\* C20: a running, unpaused game that gets no input reaches the ended phase
\* after at most TILE_COUNT ticks (the head moves along one axis until it
\* leaves the board or hits the snake), and once ended no interval is armed,
\* so no further tick occurs.
C20_EndsWithoutInput ==
    /\ <>(Phase = "ended")
    /\ [](ticks <= TILE_COUNT)
    /\ [](Phase = "ended" => timers = {})

\* C20 witness: the longest such run: a head that started on one edge of
\* the board, crossed it and left it by the far wall on tick TILE_COUNT.
C20_Witness ==
    /\ Phase = "ended"
    /\ ticks = TILE_COUNT
    /\ timers = {}

====
